---- MODULE Spec2Model ----
(***************************************************************************)
(* pkglist-query (query.c, latest revision, lines 477-851): the ordered    *)
(* job queue Q shared by the main thread (processBlob / finish / aid) and  *)
(* the helper thread (worker), with putBack flushing the formatted strings *)
(* to stdout in the original order.                                        *)
(*                                                                         *)
(* Pointers are heap addresses 1..MaxAddr, NULL is 0.  mem[a] is what the  *)
(* allocation at a holds (0: not allocated).  A header blob holds the      *)
(* arrival number of its item (its payload); a formatted string holds      *)
(* FormatVal(payload, blobSize).  malloc returns any address that is not   *)
(* allocated, so an address can be reused after free.                      *)
(*                                                                         *)
(* cs records, for the critical section under way, what the signalling    *)
(* of can_produce depends on; it is written but never read by the actions. *)
(* ident records the blob pointer each item had when it was taken; it is   *)
(* written but never read by the actions.                                  *)
(* FindSpec runs findBlob alone on arbitrary queue contents; fb holds the  *)
(* call's argument and outcome and is idle under Spec and FairSpec.        *)
(*                                                                         *)
(* Not modelled: failures of the pthread primitives and of fwrite (each    *)
(* is a die() like the two failures that are modelled), option parsing.    *)
(***************************************************************************)
EXTENDS Integers, Sequences, FiniteSets, TLC

\* ---------------------------------------------------------------- bounds
NQ == 2
MaxItems == 3
FindNQ == 5

MaxAddr == NQ + 3
Addr == 1..MaxAddr
NULL == 0
Sizes == {1, 2}

STAGE_BLOB == "BLOB"
STAGE_COOKING == "COOKING"
STAGE_STR == "STR"

\* struct qent: ptr is the union { blob; str }, size the union { blobSize; len }
qent(ptr, size, stage) == [ptr |-> ptr, size |-> size, stage |-> stage]

\* headerImport + headerFormat + strlen on a blob holding payload p of s bytes
FormatVal(p, s) == 10 * p + s
FormatLen(p, s) == s + 1

VARIABLES
    Q_nq,         \* Q.nq
    Q_q,          \* Q.q[0..NQ]
    mutex,        \* holder of Q.mutex: "none", "main" or "worker"
    can_produce,  \* main's state on Q.can_produce
    can_consume,  \* worker's state on Q.can_consume
    pc,           \* position of each thread
    w,            \* locals of worker(): blob, blobSize, str, len, waiting
                  \* (a local is reset where the code never reads it again)
    d,            \* main thread: blob, blobSize of processBlob; caller of aid
    a,            \* locals of aid(): blob, blobSize, str, len
    pb,           \* locals of the running putBack(): i, blob, str, len
    mem,          \* the heap
    items,        \* blob sizes the Source has yielded, in order
    out,          \* stdout: one record per fwrite
    failed,       \* "no", or the die() that ended the process
    failedItem,   \* payload of the item whose Transform failed
    claims,       \* claims[k]: times item k went BLOB -> COOKING (0: sentinel)
    ident,        \* ident[k]: the blob pointer item k had when it was taken
                  \* (NULL: not taken yet)
    xforms,       \* xforms[k]: the threads that formatted item k, in order
    claimedAt,    \* claimedAt[t]: index at which t claimed its entry, -1: none
    cs,           \* the critical section under way: whether a putBack was
                  \* entered with Q.nq = NQ, whether it brought Q.nq below
                  \* NQ, whether can_produce was signalled since
    fb,           \* a lone call of findBlob: its argument and what it did
    abort         \* an assert failed or a search left the array

vars == <<Q_nq, Q_q, mutex, can_produce, can_consume, pc, w, d, a, pb, mem,
          items, out, failed, failedItem, claims, ident, xforms, claimedAt,
          cs, fb, abort>>

Threads == {"main", "worker"}

NoPb == [i |-> 0, blob |-> NULL, str |-> NULL, len |-> 0]

NoCs == [full |-> FALSE, compacted |-> FALSE, signalled |-> FALSE]

NoFb == [called |-> FALSE, start |-> 0, qe |-> 0, ret |-> 0, nq |-> 0,
         q |-> <<>>]

\* Everything but the queue, as it is when main() starts.
InitProcess ==
    /\ mutex = "none"
    /\ can_produce = "idle"
    /\ can_consume = "idle"
    /\ pc = [t \in Threads |-> IF t = "main" THEN "read" ELSE "lock"]
    /\ w = [blob |-> NULL, blobSize |-> 0, str |-> NULL, len |-> 0,
            waiting |-> FALSE]
    /\ d = [blob |-> NULL, blobSize |-> 0, caller |-> "none"]
    /\ a = [blob |-> NULL, blobSize |-> 0, str |-> NULL, len |-> 0]
    /\ pb = NoPb
    /\ mem = [x \in Addr |-> 0]
    /\ items = <<>>
    /\ out = <<>>
    /\ failed = "no"
    /\ failedItem = 0
    /\ claims = [k \in 0..MaxItems |-> 0]
    /\ ident = [k \in 1..MaxItems |-> NULL]
    /\ xforms = [k \in 1..MaxItems |-> <<>>]
    /\ claimedAt = [t \in Threads |-> -1]
    /\ cs = NoCs
    /\ abort = FALSE

Init ==
    /\ Q_nq = 0
    /\ Q_q = [i \in 0..NQ |-> qent(NULL, 0, STAGE_BLOB)]
    /\ fb = NoFb
    /\ InitProcess

Running == failed = "no" /\ ~abort

\* Every pointer the program holds, dangling ones included.
Pointers ==
    {Q_q[i].ptr : i \in 0..NQ} \cup {w.blob, w.str, a.blob, a.str, d.blob,
                                     pb.blob, pb.str}

\* Mutant: malloc may return an address that is still allocated.
FreeAddrAny == Addr

\* malloc: any address that is not allocated.  The free addresses that no
\* pointer of the program mentions cannot be told apart: of these only the
\* least is tried.
FreeAddr ==
    LET free  == {x \in Addr : mem[x] = 0}
        fresh == free \ Pointers
    IN  (free \cap Pointers) \cup {x \in fresh : \A y \in fresh : x <= y}

\* Mutant: the signal is not sent.
SignalLost(cv) == cv

\* pthread_cond_signal: wakes the waiter if there is one
Signal(cv) == IF cv = "blocked" THEN "signalled" ELSE cv

\* ------------------------------------------------------------- findBlob
\* The guard write end->stage = STAGE_BLOB.
FindBlobGuard(q, nq) == [q EXCEPT ![nq].stage = STAGE_BLOB]

\* Mutant: the search does not look at the stage.
FindBlobScanAny(q, i) == i

\* The unrolled sequential search from index i; q carries the guard.
RECURSIVE FindBlobScan(_, _)
FindBlobScan(q, i) ==
    IF q[i].stage = STAGE_BLOB THEN i
    ELSE IF q[i + 1].stage = STAGE_BLOB THEN i + 1
    ELSE IF q[i + 2].stage = STAGE_BLOB THEN i + 2
    ELSE IF q[i + 3].stage = STAGE_BLOB THEN i + 3
    ELSE FindBlobScan(q, i + 4)

\* Mutant: the guard entry is returned as if it had been found.
findBlobGuardFound(q, nq, start) == FindBlobScan(FindBlobGuard(q, nq), start)

\* findBlob(Q.q + start): index of the entry found, -1 for NULL.
findBlob(q, nq, start) ==
    LET qe == FindBlobScan(FindBlobGuard(q, nq), start)
    IN  IF qe = nq THEN -1 ELSE qe

\* Mutant: finish never lends a hand.
needAid1Never(q, nq) == -1

\* needAid1(): index of the entry claimed, -1 for NULL.
needAid1(q, nq) == findBlob(q, nq, 0)

\* Mutant: the driver takes a blob even when it is the last one.
needAid2Greedy(q, nq) == findBlob(q, nq, 0)

\* Mutant: the driver takes the second blob, not the first.
needAid2Second(q, nq) ==
    LET qe == findBlob(q, nq, 0)
    IN  IF qe = -1 THEN -1 ELSE findBlob(q, nq, qe + 1)

\* needAid2(): the first blob if there are at least two, -1 for NULL.
needAid2(q, nq) ==
    LET qe == findBlob(q, nq, 0)
    IN  IF qe = -1 THEN -1
        ELSE IF findBlob(q, nq, qe + 1) = -1 THEN -1
        ELSE qe

\* findBlob on its own, compiled with NQ = FindNQ so that the unrolled loop
\* goes round: any contents of the array Q.q[0..FindNQ], any Q.nq in
\* 0..FindNQ, any start in 0..Q.nq.  Entry i holds the pointer i + 1.
Stages == {STAGE_BLOB, STAGE_COOKING, STAGE_STR}

FindInit ==
    /\ Q_nq \in 0..FindNQ
    /\ Q_q \in {[i \in 0..FindNQ |-> qent(i + 1, 1, st[i])] :
                    st \in [0..FindNQ -> Stages]}
    /\ fb \in {[NoFb EXCEPT !.start = s] : s \in 0..Q_nq}
    /\ InitProcess

\* One call findBlob(Q.q + fb.start).  fb records the array and Q.nq before
\* the call, the entry at which the search loop stopped (the entries read
\* are fb.start..fb.qe, in this order) and the value returned.
FindBlob_Call ==
    /\ ~fb.called
    /\ Q_q' = FindBlobGuard(Q_q, Q_nq)
    /\ fb' = [called |-> TRUE, start |-> fb.start,
              qe |-> FindBlobScan(FindBlobGuard(Q_q, Q_nq), fb.start),
              ret |-> findBlob(Q_q, Q_nq, fb.start),
              nq |-> Q_nq, q |-> Q_q]
    /\ UNCHANGED <<Q_nq, mutex, can_produce, can_consume, pc, w, d, a, pb,
                   mem, items, out, failed, failedItem, claims, ident, xforms,
                   claimedAt, cs, abort>>

FindNext == FindBlob_Call

FindSpec == FindInit /\ [][FindNext]_vars

\* The payload behind a blob pointer (0 for the NULL sentinel).
PayloadOf(ptr) == IF ptr = NULL THEN 0 ELSE mem[ptr]

\* Mutant: the entry taken is left in STAGE_BLOB.
ClaimNoStage(q, nq, qe) == FindBlobGuard(q, nq)

\* Mutant: the sentinel is left in STAGE_BLOB when the worker takes it.
ClaimKeepSentinel(q, nq, qe) ==
    IF q[qe].ptr = NULL
    THEN FindBlobGuard(q, nq)
    ELSE [FindBlobGuard(q, nq) EXCEPT ![qe].stage = STAGE_COOKING]

\* Mutant: the claim marks the entry behind the one taken as well.
ClaimAlsoNext(q, nq, qe) ==
    [FindBlobGuard(q, nq) EXCEPT ![qe].stage = STAGE_COOKING,
                                 ![IF qe < NQ THEN qe + 1 ELSE qe].stage =
                                     STAGE_COOKING]

\* qe->stage = STAGE_COOKING on entry qe, after a findBlob.
Claim(q, nq, qe) == [FindBlobGuard(q, nq) EXCEPT ![qe].stage = STAGE_COOKING]

\* -------------------------------------------------------------- putBack
\* Mutant: Q.nq is reduced but the entries are not moved.
MemmoveNoShift(q, i, nq) == q

\* memmove(Q.q, Q.q + i, Q.nq * sizeof(struct qent)) with Q.nq already reduced
Memmove(q, i, nq) == [j \in 0..NQ |-> IF j < nq THEN q[j + i] ELSE q[j]]

\* "Still need to put back": the unrolled search from Q.q + 1.  NQ + 1 stands
\* for a read past the end of the array.
RECURSIVE PutBackScan(_, _, _)
PutBackScan(q, i, blob) ==
    IF i > NQ THEN NQ + 1
    ELSE IF q[i].ptr = blob THEN i
    ELSE IF i + 1 > NQ THEN NQ + 1
    ELSE IF q[i + 1].ptr = blob THEN i + 1
    ELSE IF i + 2 > NQ THEN NQ + 1
    ELSE IF q[i + 2].ptr = blob THEN i + 2
    ELSE IF i + 3 > NQ THEN NQ + 1
    ELSE IF q[i + 3].ptr = blob THEN i + 3
    ELSE PutBackScan(q, i + 4, blob)

\* Where the caller of putBack continues.
AfterPutBack(t) ==
    IF t = "worker" THEN "signal"
    ELSE IF d.caller = "processBlob" THEN "pb_loop" ELSE "fin_aid"

\* The caller's locals once putBack has returned.
ReturnLocals(t) ==
    /\ w' = IF t = "worker"
             THEN [w EXCEPT !.blob = NULL, !.str = NULL, !.len = 0]
             ELSE w
    /\ a' = IF t = "main"
             THEN [blob |-> NULL, blobSize |-> 0, str |-> NULL, len |-> 0]
             ELSE a

InPutBack(t) == Running /\ pc[t] = "putBack" /\ mutex = t

\* Mutant: Ready entries are never flushed.
FlushIsStrNever == FALSE

\* Mutant: any entry being cooked is taken for the caller's own.
FlushIsOwnAnyCooking ==
    /\ pb.i < Q_nq
    /\ Q_q[pb.i].stage = STAGE_COOKING
    /\ pb.blob # NULL

\* Mutant: the caller's entry is recognised by the index it had when claimed.
FlushIsOwnByIndex ==
    /\ pb.i < Q_nq
    /\ Q_q[pb.i].stage # STAGE_STR
    /\ pb.blob # NULL
    /\ pb.i = claimedAt[mutex]

FlushIsStr == pb.i < Q_nq /\ Q_q[pb.i].stage = STAGE_STR
FlushIsOwn ==
    /\ pb.i < Q_nq
    /\ Q_q[pb.i].stage # STAGE_STR
    /\ pb.blob # NULL
    /\ Q_q[pb.i].ptr = pb.blob

\* Mutant: headerFree leaves the blob allocated.
headerFreeKeepsBlob(m, blob) == m

\* headerFree(h): the header was imported in place, its blob is freed
headerFree(m, blob) == [m EXCEPT ![blob] = 0]

\* fwrite_unlocked(qe->str, 1, qe->len, stdout) has started
PutBack_WriteStr(t) ==
    /\ InPutBack(t)
    /\ FlushIsStr
    /\ out' = Append(out, [val |-> mem[Q_q[pb.i].ptr],
                           len |-> Q_q[pb.i].size, whole |-> FALSE])
    /\ pc' = [pc EXCEPT ![t] = "fwrite_str"]
    /\ UNCHANGED <<Q_nq, Q_q, mutex, can_produce, can_consume, w, d, a, pb,
                   mem, items, failed, failedItem, claims, ident, xforms,
                   claimedAt, cs, fb, abort>>

\* ... has returned; free(qe->str); i++
PutBack_FreeStr(t) ==
    /\ Running /\ pc[t] = "fwrite_str"
    /\ out' = [out EXCEPT ![Len(out)].whole = TRUE]
    /\ mem' = [mem EXCEPT ![Q_q[pb.i].ptr] = 0]
    /\ pb' = [pb EXCEPT !.i = pb.i + 1]
    /\ pc' = [pc EXCEPT ![t] = "putBack"]
    /\ UNCHANGED <<Q_nq, Q_q, mutex, can_produce, can_consume, w, d, a,
                   items, failed, failedItem, claims, ident, xforms,
                   claimedAt, cs, fb, abort>>

\* The entry is the caller's own: assert, fwrite_unlocked(str, 1, len, stdout)
PutBack_WriteOwn(t) ==
    /\ InPutBack(t)
    /\ FlushIsOwn
    /\ IF Q_q[pb.i].stage # STAGE_COOKING
       THEN /\ abort' = TRUE
            /\ UNCHANGED <<out, pc>>
       ELSE /\ out' = Append(out, [val |-> mem[pb.str], len |-> pb.len,
                                   whole |-> FALSE])
            /\ pc' = [pc EXCEPT ![t] = "fwrite_own"]
            /\ UNCHANGED abort
    /\ UNCHANGED <<Q_nq, Q_q, mutex, can_produce, can_consume, w, d, a, pb,
                   mem, items, failed, failedItem, claims, ident, xforms,
                   claimedAt,
                   cs, fb>>

\* ... has returned; free(str); headerFree(h) frees the blob; blob = NULL; i++
PutBack_FreeOwn(t) ==
    /\ Running /\ pc[t] = "fwrite_own"
    /\ out' = [out EXCEPT ![Len(out)].whole = TRUE]
    /\ mem' = headerFree([mem EXCEPT ![pb.str] = 0], pb.blob)
    /\ pb' = [pb EXCEPT !.i = pb.i + 1, !.blob = NULL]
    /\ pc' = [pc EXCEPT ![t] = "putBack"]
    /\ UNCHANGED <<Q_nq, Q_q, mutex, can_produce, can_consume, w, d, a,
                   items, failed, failedItem, claims, ident, xforms,
                   claimedAt, cs, fb, abort>>

\* The flush loop ends: advance the queue; if the string was not written,
\* find the caller's entry and store the string in it; return.
PutBack_Advance(t) ==
    /\ InPutBack(t)
    /\ ~FlushIsStr /\ ~FlushIsOwn
    /\ LET nq == Q_nq - pb.i
           q  == Memmove(Q_q, pb.i, nq)
           qe == PutBackScan(q, 1, pb.blob)
       IN  IF pb.blob = NULL
           THEN /\ Q_nq' = nq /\ Q_q' = q
                /\ pb' = NoPb
                /\ pc' = [pc EXCEPT ![t] = AfterPutBack(t)]
                /\ ReturnLocals(t)
                /\ claimedAt' = [claimedAt EXCEPT ![t] = -1]
                /\ UNCHANGED <<mem, abort>>
           ELSE IF qe > NQ \/ q[qe].stage # STAGE_COOKING
           THEN /\ Q_nq' = nq /\ Q_q' = q
                /\ abort' = TRUE
                /\ UNCHANGED <<pb, pc, w, a, mem, claimedAt>>
           ELSE /\ Q_nq' = nq
                /\ Q_q' = [q EXCEPT ![qe] = qent(pb.str, pb.len, STAGE_STR)]
                /\ mem' = headerFree(mem, pb.blob)
                /\ pb' = NoPb
                /\ pc' = [pc EXCEPT ![t] = AfterPutBack(t)]
                /\ ReturnLocals(t)
                /\ claimedAt' = [claimedAt EXCEPT ![t] = -1]
                /\ UNCHANGED abort
    /\ cs' = [cs EXCEPT !.compacted = (cs.full /\ Q_nq - pb.i < NQ)]
    /\ UNCHANGED <<mutex, can_produce, can_consume, d, items, out, failed,
                   failedItem, claims, ident, xforms, fb>>

\* --------------------------------------------------------------- worker
\* pthread_mutex_lock; waiting = Q.nq == NQ; if (blob) putBack(...)
Worker_Lock ==
    /\ Running /\ pc["worker"] = "lock" /\ mutex = "none"
    /\ mutex' = "worker"
    /\ w' = [w EXCEPT !.waiting = (Q_nq = NQ)]
    /\ IF w.blob # NULL
       THEN /\ pb' = [i |-> 0, blob |-> w.blob, str |-> w.str, len |-> w.len]
            /\ pc' = [pc EXCEPT !["worker"] = "putBack"]
       ELSE /\ pb' = pb
            /\ pc' = [pc EXCEPT !["worker"] = "signal"]
    /\ cs' = [NoCs EXCEPT !.full = (w.blob # NULL /\ Q_nq = NQ)]
    /\ UNCHANGED <<Q_nq, Q_q, can_produce, can_consume, d, a, mem, items, out,
                   failed, failedItem, claims, ident, xforms,
                   claimedAt, fb, abort>>

\* Mutant: the worker never tells that there is room.
NeedSignalNever == FALSE

\* The condition waiting && Q.nq < NQ
NeedSignal == w.waiting /\ Q_nq < NQ

\* if (waiting && Q.nq < NQ) pthread_cond_signal(&Q.can_produce)
Worker_Signal ==
    /\ Running /\ pc["worker"] = "signal"
    /\ can_produce' = IF NeedSignal
                      THEN Signal(can_produce) ELSE can_produce
    /\ w' = [w EXCEPT !.waiting = FALSE]
    /\ pc' = [pc EXCEPT !["worker"] = "fetch"]
    /\ cs' = [cs EXCEPT !.signalled = NeedSignal]
    /\ UNCHANGED <<Q_nq, Q_q, mutex, can_consume, d, a, pb, mem, items, out,
                   failed, failedItem, claims, ident, xforms,
                   claimedAt, fb, abort>>

\* findBlob found an entry: take it, unlock; a NULL blob ends the thread
Worker_Fetch ==
    /\ Running /\ pc["worker"] = "fetch"
    /\ LET qe == findBlob(Q_q, Q_nq, 0)
       IN  /\ qe # -1
           /\ w' = [w EXCEPT !.blob = Q_q[qe].ptr, !.blobSize = Q_q[qe].size]
           /\ Q_q' = Claim(Q_q, Q_nq, qe)
           /\ claimedAt' = [claimedAt EXCEPT !["worker"] = qe]
           /\ claims' = [claims EXCEPT ![PayloadOf(Q_q[qe].ptr)] = @ + 1]
           /\ ident' = IF Q_q[qe].ptr = NULL THEN ident
                       ELSE [ident EXCEPT ![mem[Q_q[qe].ptr]] = Q_q[qe].ptr]
           /\ pc' = [pc EXCEPT !["worker"] =
                        IF Q_q[qe].ptr = NULL THEN "exit" ELSE "cook"]
    /\ mutex' = "none"
    /\ cs' = NoCs
    /\ UNCHANGED <<Q_nq, can_produce, can_consume, d, a, pb, mem, items, out,
                   failed, failedItem, xforms, fb, abort>>

\* findBlob found nothing: pthread_cond_wait(&Q.can_consume, &Q.mutex)
Worker_Wait ==
    /\ Running /\ pc["worker"] = "fetch"
    /\ findBlob(Q_q, Q_nq, 0) = -1
    /\ Q_q' = FindBlobGuard(Q_q, Q_nq)
    /\ can_consume' = "blocked"
    /\ mutex' = "none"
    /\ pc' = [pc EXCEPT !["worker"] = "wait"]
    /\ cs' = NoCs
    /\ UNCHANGED <<Q_nq, can_produce, w, d, a, pb, mem, items, out, failed,
                   failedItem, claims, ident, xforms,
                   claimedAt, fb, abort>>

\* pthread_cond_wait returns, the mutex locked again
Worker_Wake ==
    /\ Running /\ pc["worker"] = "wait"
    /\ can_consume \in {"signalled", "spurious"}
    /\ mutex = "none"
    /\ mutex' = "worker"
    /\ can_consume' = "idle"
    /\ pc' = [pc EXCEPT !["worker"] = "fetch"]
    /\ UNCHANGED <<Q_nq, Q_q, can_produce, w, d, a, pb, mem, items, out, failed,
                   failedItem, claims, ident, xforms,
                   claimedAt, cs, fb, abort>>

\* headerImport, headerFormat, strlen
Worker_Cook ==
    /\ Running /\ pc["worker"] = "cook"
    /\ \E x \in FreeAddr :
         /\ mem' = [mem EXCEPT ![x] = FormatVal(mem[w.blob], w.blobSize)]
         /\ w' = [w EXCEPT !.str = x, !.blobSize = 0,
                           !.len = FormatLen(mem[w.blob], w.blobSize)]
    /\ xforms' = [xforms EXCEPT ![mem[w.blob]] = Append(@, "worker")]
    /\ pc' = [pc EXCEPT !["worker"] = "lock"]
    /\ UNCHANGED <<Q_nq, Q_q, mutex, can_produce, can_consume, d, a, pb, items,
                   out, failed, failedItem, claims, ident, claimedAt, cs, fb,
                   abort>>

\* headerImport or headerFormat fails: die
Worker_CookFail ==
    /\ Running /\ pc["worker"] = "cook"
    /\ failed' = "transform"
    /\ failedItem' = mem[w.blob]
    /\ UNCHANGED <<Q_nq, Q_q, mutex, can_produce, can_consume, pc, w, d, a, pb,
                   mem, items, out, claims, ident, xforms,
                   claimedAt, cs, fb, abort>>

\* pthread_cond_wait may return without a signal
SpuriousWakeup ==
    /\ Running
    /\ \/ /\ can_consume = "blocked"
          /\ can_consume' = "spurious"
          /\ UNCHANGED can_produce
       \/ /\ can_produce = "blocked"
          /\ can_produce' = "spurious"
          /\ UNCHANGED can_consume
    /\ UNCHANGED <<Q_nq, Q_q, mutex, pc, w, d, a, pb, mem, items, out, failed,
                   failedItem, claims, ident, xforms,
                   claimedAt, cs, fb, abort>>

\* ------------------------------------------------------------ processFd
\* zpkglistNextMalloc returns a blob: processBlob(blob, ret, fmt)
Read_Blob ==
    /\ Running /\ pc["main"] = "read"
    /\ Len(items) < MaxItems
    /\ \E x \in FreeAddr, s \in Sizes :
         /\ mem' = [mem EXCEPT ![x] = Len(items) + 1]
         /\ items' = Append(items, s)
         /\ d' = [d EXCEPT !.blob = x, !.blobSize = s]
    /\ pc' = [pc EXCEPT !["main"] = "processBlob"]
    /\ UNCHANGED <<Q_nq, Q_q, mutex, can_produce, can_consume, w, a, pb, out,
                   failed, failedItem, claims, ident, xforms,
                   claimedAt, cs, fb, abort>>

\* zpkglistNextMalloc returns 0 on the last file: finish(thread, fmt)
Read_End ==
    /\ Running /\ pc["main"] = "read"
    /\ pc' = [pc EXCEPT !["main"] = "finish"]
    /\ UNCHANGED <<Q_nq, Q_q, mutex, can_produce, can_consume, w, d, a, pb, mem,
                   items, out, failed, failedItem, claims, ident, xforms,
                   claimedAt, cs, fb, abort>>

\* zpkglistFdopen or zpkglistNextMalloc fails: die
Read_Fail ==
    /\ Running /\ pc["main"] = "read"
    /\ failed' = "source"
    /\ UNCHANGED <<Q_nq, Q_q, mutex, can_produce, can_consume, pc, w, d, a, pb,
                   mem, items, out, failedItem, claims, ident, xforms,
                   claimedAt, cs, fb, abort>>

\* ---------------------------------------------------------- processBlob
\* Mutant: the queue is taken for full one entry too late.
QueueFullLate == Q_nq = NQ + 1

\* The loop condition Q.nq == NQ of processBlob and finish
QueueFull == Q_nq = NQ

\* Mutant: aid() keeps the mutex while it formats.
AidUnlockSkipped == "main"

\* pthread_mutex_unlock at the top of aid(): the holder afterwards
AidUnlock == "none"

\* pthread_mutex_lock on entry
ProcessBlob_Lock ==
    /\ Running /\ pc["main"] = "processBlob" /\ mutex = "none"
    /\ mutex' = "main"
    /\ pc' = [pc EXCEPT !["main"] = "pb_loop"]
    /\ UNCHANGED <<Q_nq, Q_q, can_produce, can_consume, w, d, a, pb, mem, items,
                   out, failed, failedItem, claims, ident, xforms,
                   claimedAt, cs, fb, abort>>

\* The queue is full and needAid2 gives an entry: aid() unlocks the mutex
ProcessBlob_Aid ==
    /\ Running /\ pc["main"] = "pb_loop"
    /\ QueueFull
    /\ LET qe == needAid2(Q_q, Q_nq)
       IN  /\ qe # -1
           /\ Q_q' = Claim(Q_q, Q_nq, qe)
           /\ a' = [blob |-> Q_q[qe].ptr, blobSize |-> Q_q[qe].size,
                    str |-> NULL, len |-> 0]
           /\ claimedAt' = [claimedAt EXCEPT !["main"] = qe]
           /\ claims' = [claims EXCEPT ![PayloadOf(Q_q[qe].ptr)] = @ + 1]
           /\ ident' = IF Q_q[qe].ptr = NULL THEN ident
                       ELSE [ident EXCEPT ![mem[Q_q[qe].ptr]] = Q_q[qe].ptr]
    /\ d' = [d EXCEPT !.caller = "processBlob"]
    /\ mutex' = AidUnlock
    /\ pc' = [pc EXCEPT !["main"] = "aid"]
    /\ cs' = NoCs
    /\ UNCHANGED <<Q_nq, can_produce, can_consume, w, pb, mem, items, out,
                   failed, failedItem, xforms, fb, abort>>

\* The queue is full and needAid2 gives NULL:
\* pthread_cond_wait(&Q.can_produce, &Q.mutex)
ProcessBlob_Wait ==
    /\ Running /\ pc["main"] = "pb_loop"
    /\ QueueFull
    /\ needAid2(Q_q, Q_nq) = -1
    /\ Q_q' = FindBlobGuard(Q_q, Q_nq)
    /\ can_produce' = "blocked"
    /\ mutex' = "none"
    /\ pc' = [pc EXCEPT !["main"] = "pb_wait"]
    /\ cs' = NoCs
    /\ UNCHANGED <<Q_nq, can_consume, w, d, a, pb, mem, items, out, failed,
                   failedItem, claims, ident, xforms,
                   claimedAt, fb, abort>>

\* pthread_cond_wait returns, the mutex locked again
ProcessBlob_Wake ==
    /\ Running /\ pc["main"] = "pb_wait"
    /\ can_produce \in {"signalled", "spurious"}
    /\ mutex = "none"
    /\ mutex' = "main"
    /\ can_produce' = "idle"
    /\ pc' = [pc EXCEPT !["main"] = "pb_loop"]
    /\ UNCHANGED <<Q_nq, Q_q, can_consume, w, d, a, pb, mem, items, out, failed,
                   failedItem, claims, ident, xforms,
                   claimedAt, cs, fb, abort>>

\* Q.q[Q.nq++] = { blob, blobSize, STAGE_BLOB }; signal can_consume; unlock
ProcessBlob_Put ==
    /\ Running /\ pc["main"] = "pb_loop"
    /\ ~QueueFull
    /\ Q_q' = [Q_q EXCEPT ![Q_nq] = qent(d.blob, d.blobSize, STAGE_BLOB)]
    /\ Q_nq' = Q_nq + 1
    /\ can_consume' = Signal(can_consume)
    /\ mutex' = "none"
    /\ d' = [blob |-> NULL, blobSize |-> 0, caller |-> "none"]
    /\ pc' = [pc EXCEPT !["main"] = "read"]
    /\ cs' = NoCs
    /\ UNCHANGED <<can_produce, w, a, pb, mem, items, out, failed, failedItem,
                   claims, ident, xforms,
                   claimedAt, fb, abort>>

\* ------------------------------------------------------------------ aid
\* headerImport, headerFormat, strlen, with the mutex unlocked
Aid_Cook ==
    /\ Running /\ pc["main"] = "aid"
    /\ \E x \in FreeAddr :
         /\ mem' = [mem EXCEPT ![x] = FormatVal(mem[a.blob], a.blobSize)]
         /\ a' = [a EXCEPT !.str = x, !.blobSize = 0,
                           !.len = FormatLen(mem[a.blob], a.blobSize)]
    /\ xforms' = [xforms EXCEPT ![mem[a.blob]] = Append(@, "main")]
    /\ pc' = [pc EXCEPT !["main"] = "aid_lock"]
    /\ UNCHANGED <<Q_nq, Q_q, mutex, can_produce, can_consume, w, d, pb, items,
                   out, failed, failedItem, claims, ident, claimedAt, cs, fb,
                   abort>>

\* headerImport or headerFormat fails: die
Aid_CookFail ==
    /\ Running /\ pc["main"] = "aid"
    /\ failed' = "transform"
    /\ failedItem' = mem[a.blob]
    /\ UNCHANGED <<Q_nq, Q_q, mutex, can_produce, can_consume, pc, w, d, a, pb,
                   mem, items, out, claims, ident, xforms,
                   claimedAt, cs, fb, abort>>

\* pthread_mutex_lock; putBack(blob, h, str, len)
Aid_Lock ==
    /\ Running /\ pc["main"] = "aid_lock" /\ mutex = "none"
    /\ mutex' = "main"
    /\ pb' = [i |-> 0, blob |-> a.blob, str |-> a.str, len |-> a.len]
    /\ pc' = [pc EXCEPT !["main"] = "putBack"]
    /\ cs' = [NoCs EXCEPT !.full = (Q_nq = NQ)]
    /\ UNCHANGED <<Q_nq, Q_q, can_produce, can_consume, w, d, a, mem, items,
                   out,
                   failed, failedItem, claims, ident, xforms,
                   claimedAt, fb, abort>>

\* --------------------------------------------------------------- finish
\* pthread_mutex_lock on entry
Finish_Lock ==
    /\ Running /\ pc["main"] = "finish" /\ mutex = "none"
    /\ mutex' = "main"
    /\ pc' = [pc EXCEPT !["main"] = "fin_aid"]
    /\ UNCHANGED <<Q_nq, Q_q, can_produce, can_consume, w, d, a, pb, mem, items,
                   out, failed, failedItem, claims, ident, xforms,
                   claimedAt, cs, fb, abort>>

\* needAid1 gives an entry: aid() unlocks the mutex
Finish_Aid ==
    /\ Running /\ pc["main"] = "fin_aid"
    /\ LET qe == needAid1(Q_q, Q_nq)
       IN  /\ qe # -1
           /\ Q_q' = Claim(Q_q, Q_nq, qe)
           /\ a' = [blob |-> Q_q[qe].ptr, blobSize |-> Q_q[qe].size,
                    str |-> NULL, len |-> 0]
           /\ claimedAt' = [claimedAt EXCEPT !["main"] = qe]
           /\ claims' = [claims EXCEPT ![PayloadOf(Q_q[qe].ptr)] = @ + 1]
           /\ ident' = IF Q_q[qe].ptr = NULL THEN ident
                       ELSE [ident EXCEPT ![mem[Q_q[qe].ptr]] = Q_q[qe].ptr]
    /\ d' = [d EXCEPT !.caller = "finish"]
    /\ mutex' = AidUnlock
    /\ pc' = [pc EXCEPT !["main"] = "aid"]
    /\ cs' = NoCs
    /\ UNCHANGED <<Q_nq, can_produce, can_consume, w, pb, mem, items, out,
                   failed, failedItem, xforms, fb, abort>>

\* needAid1 gives NULL: leave the loop
Finish_Break ==
    /\ Running /\ pc["main"] = "fin_aid"
    /\ needAid1(Q_q, Q_nq) = -1
    /\ Q_q' = FindBlobGuard(Q_q, Q_nq)
    /\ pc' = [pc EXCEPT !["main"] = "fin_full"]
    /\ UNCHANGED <<Q_nq, mutex, can_produce, can_consume, w, d, a, pb, mem,
                   items, out, failed, failedItem, claims, ident, xforms,
                   claimedAt, cs, fb, abort>>

\* while (Q.nq == NQ) pthread_cond_wait(&Q.can_produce, &Q.mutex)
Finish_Wait ==
    /\ Running /\ pc["main"] = "fin_full"
    /\ QueueFull
    /\ can_produce' = "blocked"
    /\ mutex' = "none"
    /\ pc' = [pc EXCEPT !["main"] = "fin_wait"]
    /\ cs' = NoCs
    /\ UNCHANGED <<Q_nq, Q_q, can_consume, w, d, a, pb, mem, items, out, failed,
                   failedItem, claims, ident, xforms,
                   claimedAt, fb, abort>>

\* pthread_cond_wait returns, the mutex locked again
Finish_Wake ==
    /\ Running /\ pc["main"] = "fin_wait"
    /\ can_produce \in {"signalled", "spurious"}
    /\ mutex = "none"
    /\ mutex' = "main"
    /\ can_produce' = "idle"
    /\ pc' = [pc EXCEPT !["main"] = "fin_full"]
    /\ UNCHANGED <<Q_nq, Q_q, can_consume, w, d, a, pb, mem, items, out, failed,
                   failedItem, claims, ident, xforms,
                   claimedAt, cs, fb, abort>>

\* Q.q[Q.nq++] = { NULL, 0, STAGE_BLOB }; signal can_consume; unlock
Finish_Put ==
    /\ Running /\ pc["main"] = "fin_full"
    /\ ~QueueFull
    /\ Q_q' = [Q_q EXCEPT ![Q_nq] = qent(NULL, 0, STAGE_BLOB)]
    /\ Q_nq' = Q_nq + 1
    /\ can_consume' = Signal(can_consume)
    /\ mutex' = "none"
    /\ pc' = [pc EXCEPT !["main"] = "join"]
    /\ cs' = NoCs
    /\ UNCHANGED <<can_produce, w, d, a, pb, mem, items, out, failed,
                   failedItem, claims, ident, xforms,
                   claimedAt, fb, abort>>

\* pthread_join returns once the worker has returned; main flushes stdout
Finish_Join ==
    /\ Running /\ pc["main"] = "join"
    /\ pc["worker"] = "exit"
    /\ pc' = [pc EXCEPT !["main"] = "done"]
    /\ UNCHANGED <<Q_nq, Q_q, mutex, can_produce, can_consume, w, d, a, pb, mem,
                   items, out, failed, failedItem, claims, ident, xforms,
                   claimedAt, cs, fb, abort>>

\* -------------------------------------------------------- specification
PutBack(t) ==
    \/ PutBack_WriteStr(t)
    \/ PutBack_FreeStr(t)
    \/ PutBack_WriteOwn(t)
    \/ PutBack_FreeOwn(t)
    \/ PutBack_Advance(t)

Worker ==
    \/ Worker_Lock
    \/ Worker_Signal
    \/ Worker_Fetch
    \/ Worker_Wait
    \/ Worker_Wake
    \/ Worker_Cook
    \/ PutBack("worker")

Main ==
    \/ Read_Blob
    \/ Read_End
    \/ ProcessBlob_Lock
    \/ ProcessBlob_Aid
    \/ ProcessBlob_Wait
    \/ ProcessBlob_Wake
    \/ ProcessBlob_Put
    \/ Aid_Cook
    \/ Aid_Lock
    \/ Finish_Lock
    \/ Finish_Aid
    \/ Finish_Break
    \/ Finish_Wait
    \/ Finish_Wake
    \/ Finish_Put
    \/ Finish_Join
    \/ PutBack("main")

Die ==
    \/ Worker_CookFail
    \/ Aid_CookFail
    \/ Read_Fail

Next == Worker \/ Main \/ Die \/ SpuriousWakeup

Spec == Init /\ [][Next]_vars

\* Runs in which every Transform call returns and the Source does not fail,
\* under a scheduler that lets each thread run again and again: a thread that
\* can take a step infinitely often (in particular, lock the mutex whenever
\* the other thread has released it) eventually takes one.  A wait that is
\* never signalled need not return.
NextNoDie == Worker \/ Main \/ SpuriousWakeup

FairSpec == Init /\ [][NextNoDie]_vars /\ SF_vars(Worker) /\ SF_vars(Main)

\* ================================================================ claims
\* What Transform gives for the k-th item the Source yielded.
Result(k) == [val |-> FormatVal(k, items[k]), len |-> FormatLen(k, items[k])]

\* The live entries Q.q[0..Q.nq) in a given stage.
InStage(stage) == {i \in 0..(Q_nq - 1) : Q_q[i].stage = stage}

\* C1: order preservation.  In every reachable state the results written to
\* stdout are Transform(i_1), Transform(i_2), ... in arrival order: the j-th
\* write is the result of the j-th item, and a write starts only when all
\* earlier writes are complete.
C1_OrderPreserved ==
    /\ Len(out) <= Len(items)
    /\ \A j \in 1..Len(out) :
         /\ out[j].val = Result(j).val
         /\ out[j].len = Result(j).len
         /\ (j < Len(out) => out[j].whole)

\* A later item is Ready behind an earlier one still being cooked, while
\* results have already been written.
C1_Witness ==
    /\ Len(out) >= 1
    /\ Q_nq >= 2
    /\ Q_q[0].stage = STAGE_COOKING
    /\ Q_q[1].stage = STAGE_STR

\* C2: bounded occupancy.  0 <= Q.nq <= NQ in every reachable state, the
\* sentinel counted.
C2_Bounded == Q_nq >= 0 /\ Q_nq <= NQ

\* The queue is full with the sentinel as its last entry.
C2_Witness ==
    /\ Q_nq = NQ
    /\ Q_q[NQ - 1].ptr = NULL
    /\ pc["main"] = "join"

\* C3: no lost or duplicated work.  No item is formatted twice or written
\* twice, and when main is done every item was formatted exactly once, by
\* one thread, and stdout holds exactly one complete result per item.
C3_ExactlyOnce ==
    /\ \A k \in 1..MaxItems : Len(xforms[k]) <= 1
    /\ \A i \in 1..Len(out), j \in 1..Len(out) :
         out[i].val = out[j].val => i = j
    /\ pc["main"] = "done" =>
         /\ \A k \in 1..Len(items) : Len(xforms[k]) = 1
         /\ Len(out) = Len(items)
         /\ \A j \in 1..Len(out) : out[j] = [val |-> Result(j).val,
                                              len |-> Result(j).len,
                                              whole |-> TRUE]

\* A finished run in which each thread formatted some item.
C3_Witness ==
    /\ pc["main"] = "done"
    /\ Len(items) = MaxItems
    /\ \E k \in 1..MaxItems : xforms[k] = <<"main">>
    /\ \E k \in 1..MaxItems : xforms[k] = <<"worker">>

\* C4: termination.  Under FairSpec every run reaches Done: the sentinel is
\* put, the worker takes it and returns, pthread_join returns.
C4_Termination == <>(pc["main"] = "done" /\ pc["worker"] = "exit")

\* A finished run of MaxItems items.
C4_Witness ==
    /\ pc["main"] = "done"
    /\ pc["worker"] = "exit"
    /\ Len(out) = MaxItems

\* pendingCount and pendingBytes of the specification: the entries in
\* STAGE_BLOB and the sum of their blobSize.
RECURSIVE SumSizes(_)
SumSizes(S) ==
    IF S = {} THEN 0
    ELSE LET i == CHOOSE x \in S : TRUE
         IN  Q_q[i].size + SumSizes(S \ {i})

pendingCount == Cardinality(InStage(STAGE_BLOB))
pendingBytes == SumSizes(InStage(STAGE_BLOB))

\* C5: consistency at Done.  Once the worker has been joined no entry of the
\* queue is Pending: pendingCount = 0 and pendingBytes = 0.
C5_DoneConsistent ==
    pc["main"] = "done" => pendingCount = 0 /\ pendingBytes = 0

\* Done after a run that had items.
C5_Witness ==
    /\ pc["main"] = "done"
    /\ Len(items) >= 1
    /\ Q_nq = 1

\* C6: a Transform failure is fatal.  Once Transform has failed on item k,
\* stdout holds complete results only, those of items before k.
C6_FailureWholeItems ==
    failed = "transform" =>
        /\ Len(out) < failedItem
        /\ \A j \in 1..Len(out) : out[j] = [val |-> Result(j).val,
                                             len |-> Result(j).len,
                                             whole |-> TRUE]

\* The live entries holding the NULL sentinel.
Sentinels == {i \in 0..(Q_nq - 1) : Q_q[i].ptr = NULL}

\* C7: sentinel protocol.  No sentinel is in the queue before finish has put
\* it; from then on exactly one is, and it is the last entry.
C7_SentinelLast ==
    IF pc["main"] \in {"join", "done"}
    THEN Sentinels = {Q_nq - 1}
    ELSE Sentinels = {}

\* The sentinel is queued behind an item that is still being cooked.
C7_Witness ==
    /\ Q_nq = 2
    /\ Q_q[1].ptr = NULL
    /\ Q_q[0].stage = STAGE_COOKING
    /\ Q_q[0].ptr # NULL

\* C8: no double claim.  No item (nor the sentinel) goes BLOB -> COOKING
\* twice, and the two threads never hold the same blob.
C8_NoDoubleClaim ==
    /\ \A k \in 0..MaxItems : claims[k] <= 1
    /\ (w.blob # NULL /\ a.blob # NULL) =>
          /\ w.blob # a.blob
          /\ mem[w.blob] # mem[a.blob]

\* Both threads are inside Transform.
C8_Witness == pc["worker"] = "cook" /\ pc["main"] = "aid"

\* A putBack is running.
PutBackRunning ==
    mutex # "none" /\ pc[mutex] \in {"putBack", "fwrite_str", "fwrite_own"}

\* C9: maximal ready-prefix flush.  Outside a running putBack, in
\* particular whenever the mutex is free, the head entry is not Ready.
C9_HeadNotReady ==
    (~PutBackRunning /\ Q_nq > 0) => Q_q[0].stage # STAGE_STR

\* The mutex is free, results were written, and a Ready entry waits behind
\* a head that is not Ready.
C9_Witness ==
    /\ mutex = "none"
    /\ Len(out) >= 1
    /\ Q_nq >= 2
    /\ Q_q[0].stage # STAGE_STR
    /\ Q_q[1].stage = STAGE_STR

\* The blob a thread has claimed and not yet put back (NULL: none).
Held(t) ==
    IF t = "worker"
    THEN (IF pc[t] \in {"cook", "lock"} THEN w.blob ELSE NULL)
    ELSE (IF pc[t] \in {"aid", "aid_lock"} THEN a.blob ELSE NULL)

\* The live entries whose pointer is b.
Matching(b) == {i \in 0..(Q_nq - 1) : Q_q[i].ptr = b}

\* C10: identity survives compaction.  No assertion of putBack fails and no
\* search leaves the array; a claimed blob matches exactly one live entry,
\* which is in STAGE_COOKING, until its putBack; and the search of putBack
\* ends inside the live range.
C10_IdentityFound ==
    /\ ~abort
    /\ \A t \in Threads :
         LET b == IF PutBackRunning /\ mutex = t THEN pb.blob ELSE Held(t)
         IN  b # NULL =>
               /\ Cardinality(Matching(b)) = 1
               /\ \A i \in Matching(b) : Q_q[i].stage = STAGE_COOKING
    /\ \A t \in Threads :
         (InPutBack(t) /\ ~FlushIsStr /\ ~FlushIsOwn /\ pb.blob # NULL) =>
            LET nq == Q_nq - pb.i
            IN  PutBackScan(Memmove(Q_q, pb.i, nq), 1, pb.blob) < nq

\* Main is about to put back an entry it claimed at index 1 and that a flush
\* by the worker has since moved to index 0.
C10_Witness ==
    /\ pc["main"] = "aid_lock"
    /\ claimedAt["main"] = 1
    /\ Q_q[0].ptr = a.blob
    /\ Q_nq >= 1

\* The least live index in STAGE_BLOB (-1: none).
EarliestPending ==
    IF InStage(STAGE_BLOB) = {} THEN -1
    ELSE CHOOSE i \in InStage(STAGE_BLOB) :
             \A j \in InStage(STAGE_BLOB) : i <= j

\* A step of main out of the loop head of processBlob.
C11_Step ==
    /\ (pc["main"] = "pb_loop" /\ pc'["main"] = "aid") =>
          /\ Q_nq = NQ
          /\ pendingCount >= 2
          /\ claimedAt'["main"] = EarliestPending
          /\ a'.blob = Q_q[EarliestPending].ptr
          /\ Q_q'[EarliestPending].stage = STAGE_COOKING
          /\ pendingCount' = pendingCount - 1
          /\ pendingCount' >= 1
    /\ (pc["main"] = "pb_loop" /\ pc'["main"] # "pb_loop"
            /\ Q_nq = NQ /\ pendingCount < 2) =>
          /\ pc'["main"] = "pb_wait"
          /\ can_produce' = "blocked"
          /\ Q_nq' = Q_nq
          /\ \A i \in 0..(Q_nq - 1) : Q_q'[i] = Q_q[i]

\* C11: queue-full steal rule.  In processBlob main claims an entry only when
\* Q.nq = NQ and at least two entries are Pending; it claims the earliest
\* Pending entry, and at least one Pending entry remains right after the
\* claim.  When Q.nq = NQ and fewer than two entries are Pending it claims
\* nothing and waits on can_produce.
C11_QueueFullSteal == [][C11_Step]_vars

\* Main cooks an entry it took from a full queue, another one left Pending.
C11_Witness ==
    /\ pc["main"] = "aid"
    /\ d.caller = "processBlob"
    /\ Q_nq = NQ
    /\ pendingCount >= 1

\* Main is inside the Transform of an entry it took because the queue was
\* full.
Stealing == pc["main"] = "aid" /\ d.caller = "processBlob"

\* The worker waits on can_consume and no signal or wakeup is on its way.
WorkerBlocked == pc["worker"] = "wait" /\ can_consume = "blocked"

\* C12 as stated: the worker is never blocked on can_consume while main
\* cooks an entry it took from a full queue.
C12_NeverStarved == ~(Stealing /\ WorkerBlocked)

\* C12, amended: when main takes an entry from a full queue a Pending entry
\* is left and the worker is not blocked on can_consume at that moment;
\* while main cooks that entry the worker is blocked on can_consume only
\* when no entry is Pending any more and every other live entry is Ready,
\* that is once the worker has itself taken and finished what was left.
C12_StarvedOnlyWhenDrained ==
    /\ [][(pc["main"] = "pb_loop" /\ pc'["main"] = "aid") =>
             (pendingCount' >= 1 /\ ~WorkerBlocked')]_vars
    /\ []((Stealing /\ WorkerBlocked) =>
             /\ pendingCount = 0
             /\ \A i \in 0..(Q_nq - 1) :
                  Q_q[i].ptr # a.blob => Q_q[i].stage = STAGE_STR)

\* Main still cooks the entry it took from the full queue; the worker has
\* finished the entry that was left and waits for more.
C12_Witness ==
    /\ Stealing
    /\ WorkerBlocked
    /\ Q_nq = NQ
    /\ Q_q[0].ptr = a.blob
    /\ Q_q[1].stage = STAGE_STR

\* A step of main inside finish.
C13_Step ==
    /\ (pc["main"] = "fin_aid" /\ pc'["main"] = "aid") =>
          /\ pendingCount >= 1
          /\ claimedAt'["main"] = EarliestPending
          /\ a'.blob = Q_q[EarliestPending].ptr
    /\ (pc["main"] = "fin_aid" /\ pc'["main"] = "fin_full") =>
          pendingCount = 0
    /\ (pc["main"] = "fin_full" /\ pc'["main"] = "fin_wait") =>
          Q_nq = NQ
    /\ (pc["main"] = "fin_full" /\ pc'["main"] = "join") =>
          /\ pendingCount = 0
          /\ a.blob = NULL /\ claimedAt["main"] = -1
          /\ Q_nq < NQ
          /\ Q_nq' = Q_nq + 1
          /\ Q_q'[Q_nq] = qent(NULL, 0, STAGE_BLOB)
          /\ InStage(STAGE_BLOB)' = {Q_nq}

\* C13: end-of-input drain.  In finish main keeps claiming the earliest
\* Pending entry until none is Pending, then waits while Q.nq = NQ; when it
\* appends the sentinel no other entry is Pending, main has no item in
\* flight and Q.nq < NQ; from then on no entry but the sentinel is Pending.
C13_Drain ==
    /\ [][C13_Step]_vars
    /\ [](pc["main"] \in {"join", "done"} =>
            InStage(STAGE_BLOB) \subseteq Sentinels)

\* The sentinel has just been appended, after main lent a hand in finish,
\* behind an entry that is not yet written.
C13_Witness ==
    /\ pc["main"] = "join"
    /\ d.caller = "finish"
    /\ Q_nq >= 2
    /\ InStage(STAGE_BLOB) = {Q_nq - 1}
    /\ Q_q[Q_nq - 1].ptr = NULL

\* Thread t releases the mutex after a putBack that it entered with
\* Q.nq = NQ and that brought Q.nq below NQ: can_produce was signalled.
C14_Step(t) ==
    (mutex = t /\ mutex' = "none" /\ cs.full /\ cs.compacted) => cs.signalled

\* C14 as stated: a putBack of either thread that starts with Q.nq = NQ and
\* brings Q.nq below NQ is followed by a signal on can_produce before the
\* mutex is released.
C14_SignalOnComplete == [][C14_Step("main") /\ C14_Step("worker")]_vars

\* C14, amended: a putBack of the worker that starts with Q.nq = NQ and
\* brings Q.nq below NQ is followed by a signal on can_produce before the
\* worker releases the mutex.  Main never signals can_produce, whatever its
\* putBack did: whenever main holds the mutex nobody waits on can_produce.
C14_WorkerSignalsRoom ==
    /\ [][C14_Step("worker")]_vars
    /\ [](mutex = "main" => (~cs.signalled /\ can_produce = "idle"))

\* The worker's putBack emptied a full queue on which main was waiting, and
\* the worker has signalled can_produce, the mutex still held.
C14_Witness ==
    /\ mutex = "worker"
    /\ pc["worker"] = "fetch"
    /\ cs.full /\ cs.compacted /\ cs.signalled
    /\ can_produce = "signalled"

\* Main starts a wait on can_produce.
C15_Step ==
    /\ (pc["main"] = "pb_loop" /\ pc'["main"] = "pb_wait") =>
          (Q_nq = NQ /\ pendingCount < 2 /\ can_produce' = "blocked")
    /\ (pc["main"] = "fin_full" /\ pc'["main"] = "fin_wait") =>
          (Q_nq = NQ /\ can_produce' = "blocked")
    /\ (can_produce # "blocked" /\ can_produce' = "blocked") =>
          pc'["main"] \in {"pb_wait", "fin_wait"}

\* C15: no lost wakeup for the producer.  Main starts waiting on can_produce
\* only when Q.nq = NQ (in processBlob: and fewer than two entries are
\* Pending); whenever the mutex is free and main is still blocked on
\* can_produce, no signal on its way, Q.nq = NQ still holds.
C15_ProducerWakeup ==
    /\ [][C15_Step]_vars
    /\ []((mutex = "none" /\ can_produce = "blocked") => Q_nq = NQ)

\* Main is blocked in processBlob on a full queue, the mutex free, the
\* worker cooking the one entry that was Pending.
C15_Witness ==
    /\ mutex = "none"
    /\ pc["main"] = "pb_wait"
    /\ can_produce = "blocked"
    /\ Q_nq = NQ
    /\ pc["worker"] = "cook"

\* The worker starts a wait on can_consume, or an entry is appended.
C16_Step ==
    /\ (pc["worker"] = "fetch" /\ pc'["worker"] = "wait") =>
          (pendingCount = 0 /\ can_consume' = "blocked")
    /\ (can_consume # "blocked" /\ can_consume' = "blocked") =>
          pc'["worker"] = "wait"
    /\ (Q_nq' > Q_nq) =>
          /\ mutex = "main"
          /\ Q_nq' = Q_nq + 1
          /\ Q_q'[Q_nq].stage = STAGE_BLOB
          /\ can_consume' # "blocked"
          /\ can_consume = "blocked" => can_consume' = "signalled"

\* C16: no lost wakeup for the consumer.  The worker starts waiting on
\* can_consume only when no entry is Pending; every step that appends an
\* entry, item or sentinel, is taken with the mutex held and signals
\* can_consume; whenever the mutex is free and the worker is still blocked
\* on can_consume, no signal on its way, no entry is Pending.
C16_ConsumerWakeup ==
    /\ [][C16_Step]_vars
    /\ []((mutex = "none" /\ can_consume = "blocked") => pendingCount = 0)

\* The worker has written a result and is blocked on an empty queue, the
\* mutex free, while main reads the next item.
C16_Witness ==
    /\ mutex = "none"
    /\ WorkerBlocked
    /\ pc["main"] = "read"
    /\ Len(out) >= 1
    /\ Q_nq = 0

\* C17: findBlob.  For every contents of the queue with 0 <= Q.nq <= NQ and
\* every start in 0..Q.nq, findBlob(Q.q + start) returns the least index in
\* start..Q.nq-1 whose entry is in STAGE_BLOB, NULL if there is none; Q.nq
\* and every entry but Q.q[Q.nq] are left as they were, Q.q[Q.nq] has only
\* its stage set to STAGE_BLOB, and no entry beyond Q.q[Q.nq] is read.
C17_FindBlob ==
    fb.called =>
        LET P == {i \in fb.start..(fb.nq - 1) : fb.q[i].stage = STAGE_BLOB}
        IN  /\ fb.ret = IF P = {} THEN -1
                        ELSE CHOOSE i \in P : \A j \in P : i <= j
            /\ Q_nq = fb.nq
            /\ DOMAIN Q_q = DOMAIN fb.q
            /\ \A i \in DOMAIN fb.q : i # fb.nq => Q_q[i] = fb.q[i]
            /\ Q_q[fb.nq] = [fb.q[fb.nq] EXCEPT !.stage = STAGE_BLOB]
            /\ fb.start <= fb.qe /\ fb.qe <= fb.nq

\* A search from the middle of the queue that goes round the unrolled loop
\* and finds nothing, although an entry before start is in STAGE_BLOB.
C17_Witness ==
    /\ fb.called
    /\ fb.start >= 1
    /\ fb.qe >= fb.start + 4
    /\ fb.ret = -1
    /\ fb.q[0].stage = STAGE_BLOB
    /\ fb.q[fb.nq].stage # STAGE_BLOB

\* A step in which thread t claims an entry.
C18_Step(t) ==
    (claimedAt'[t] # claimedAt[t] /\ claimedAt'[t] # -1) =>
        /\ claimedAt'[t] = EarliestPending
        /\ Q_q'[EarliestPending].stage = STAGE_COOKING
        /\ claims'[PayloadOf(Q_q[EarliestPending].ptr)] =
               claims[PayloadOf(Q_q[EarliestPending].ptr)] + 1

\* C18: claims happen in arrival order.  Every claim, by the worker, by
\* needAid1 or by needAid2, takes the earliest Pending entry; an item is
\* claimed only when every item that arrived before it has been claimed,
\* and the sentinel only when every item has been; in the queue no Pending
\* entry precedes an entry that is InProgress or Ready.
C18_ClaimOrder ==
    /\ [][C18_Step("main") /\ C18_Step("worker")]_vars
    /\ [](\A i \in 1..MaxItems, j \in 1..MaxItems :
            (i < j /\ claims[j] >= 1) => claims[i] >= 1)
    /\ [](claims[0] >= 1 => \A i \in 1..Len(items) : claims[i] >= 1)
    /\ [](\A i \in 0..(Q_nq - 1), j \in 0..(Q_nq - 1) :
            (i < j /\ Q_q[i].stage = STAGE_BLOB) => Q_q[j].stage = STAGE_BLOB)

\* Main has claimed the head of a full queue and the worker, after it, the
\* entry behind: both are being cooked.
C18_Witness ==
    /\ Stealing
    /\ pc["worker"] = "cook"
    /\ Q_nq = NQ
    /\ Q_q[0].ptr = a.blob
    /\ Q_q[1].ptr = w.blob
    /\ claims[1] = 1 /\ claims[2] = 1

\* The positions at which thread t is between a lock (or the return of a
\* pthread_cond_wait) and the next unlock (or pthread_cond_wait): those of
\* putBack, of findBlob and its callers, and of the tests and updates of
\* Q.nq and Q.q in worker, processBlob and finish.
Critical(t) ==
    IF t = "worker"
    THEN {"putBack", "fwrite_str", "fwrite_own", "signal", "fetch"}
    ELSE {"pb_loop", "putBack", "fwrite_str", "fwrite_own", "fin_aid",
          "fin_full"}

\* The position at which thread t is inside headerImport / headerFormat.
InTransform(t) == pc[t] = IF t = "worker" THEN "cook" ELSE "aid"

\* A step that changes Q.nq or Q.q is a step of the thread that holds the
\* mutex, and of no other.
C19_Step ==
    (Q_nq' # Q_nq \/ Q_q' # Q_q) =>
        /\ mutex \in Threads
        /\ pc[mutex] \in Critical(mutex)
        /\ pc'[mutex] # pc[mutex]
        /\ \A t \in Threads \ {mutex} : pc'[t] = pc[t]

\* C19: lock discipline.  A thread is at a position where the code reads or
\* writes Q.nq or Q.q exactly when it holds Q.mutex, every change of Q.nq
\* or Q.q is made by the holder, and a thread inside Transform does not
\* hold the mutex.
C19_LockDiscipline ==
    /\ [](\A t \in Threads : (mutex = t <=> pc[t] \in Critical(t)))
    /\ [](\A t \in Threads : InTransform(t) => mutex # t)
    /\ [][C19_Step]_vars

\* Both threads are inside Transform, nobody holds the mutex, the queue is
\* full.
C19_Witness ==
    /\ InTransform("main")
    /\ InTransform("worker")
    /\ mutex = "none"
    /\ Q_nq = NQ

\* The string thread t has formatted and not yet stored or written: the
\* parameter str of its putBack while blob is not NULL, else its local str.
StrOwned(t) ==
    IF PutBackRunning /\ mutex = t
    THEN (IF pb.blob # NULL THEN pb.str ELSE NULL)
    ELSE (IF t = "worker" THEN w.str ELSE a.str)

\* The first entry whose buffer has not been released: the running putBack
\* has written and freed those before Q.q[i].
Unflushed == IF PutBackRunning THEN pb.i ELSE 0

\* The buffers the program has to release, one per holder: the blob that
\* processBlob is about to enqueue, the string of each thread, the entries
\* from Unflushed on.
Owners ==
    <<d.blob, StrOwned("main"), StrOwned("worker")>> \o
    [k \in 1..(Q_nq - Unflushed) |-> Q_q[Unflushed + k - 1].ptr]

\* The pointers the code is about to read through, write out, free or
\* compare: the blob in the hands of a thread, the arguments of putBack.
InUse ==
    {IF InTransform("worker") \/ pc["worker"] = "lock" THEN w.blob ELSE NULL,
     IF InTransform("main") \/ pc["main"] = "aid_lock" THEN a.blob ELSE NULL,
     IF PutBackRunning THEN pb.blob ELSE NULL,
     IF PutBackRunning /\ pb.blob # NULL THEN pb.str ELSE NULL} \ {NULL}

\* C20: buffer ownership.  Every allocated buffer is held by exactly one
\* owner (a queue entry not yet flushed, the string a thread has formatted,
\* the blob processBlob is about to enqueue) and no owner holds a released
\* buffer, so that each free releases an allocated buffer once; the queue
\* entries the code compares with a blob pointer hold allocated buffers or
\* NULL; every pointer read, written out or freed is allocated; when main is
\* done every blob and every string has been released.
C20_BufferOwnership ==
    /\ \A o1 \in DOMAIN Owners, o2 \in DOMAIN Owners :
         (o1 # o2 /\ Owners[o1] # NULL) => Owners[o1] # Owners[o2]
    /\ {x \in Addr : mem[x] # 0} = {Owners[o] : o \in DOMAIN Owners} \ {NULL}
    /\ \A x \in InUse : mem[x] # 0
    /\ pc["main"] = "done" => \A x \in Addr : mem[x] = 0

\* A putBack has written and freed its own string and blob and a Ready
\* string before them, and goes on with an entry that is still allocated;
\* the array still holds the pointer freed first.
C20_Witness ==
    /\ PutBackRunning
    /\ pb.blob = NULL
    /\ pb.i >= 1
    /\ pb.i < Q_nq
    /\ Q_q[0].ptr # NULL
    /\ mem[Q_q[0].ptr] = 0
    /\ mem[Q_q[pb.i].ptr] # 0

\* The arrival number of the item in entry e, from what its buffer holds: a
\* blob holds the number, a string the result of formatting; the sentinel
\* comes after every item; 0 if the buffer holds neither.
ItemOf(e) ==
    IF e.ptr = NULL THEN Len(items) + 1
    ELSE IF e.stage = STAGE_STR
    THEN (IF \E k \in 1..Len(items) : Result(k).val = mem[e.ptr]
          THEN CHOOSE k \in 1..Len(items) : Result(k).val = mem[e.ptr]
          ELSE 0)
    ELSE mem[e.ptr]

\* The item in the last live entry.
TailItem == ItemOf(Q_q[Q_nq - 1])

\* A step that appends to the queue or takes entries off its head.
C21_Step ==
    /\ (Q_nq' > Q_nq) =>
          /\ Q_nq' = Q_nq + 1
          /\ \A i \in 0..(Q_nq - 1) : Q_q'[i] = Q_q[i]
          /\ TailItem' =
                IF pc["main"] = "pb_loop" THEN Len(items) ELSE Len(items) + 1
    /\ (Q_nq' < Q_nq) =>
          /\ PutBackRunning
          /\ Q_nq' = Q_nq - pb.i
          /\ \A j \in 0..(Q_nq' - 1) :
                \/ Q_q'[j] = Q_q[j + pb.i]
                \/ /\ Q_q[j + pb.i].ptr = pb.blob
                   /\ Q_q[j + pb.i].stage = STAGE_COOKING
                   /\ Q_q'[j] = qent(pb.str, pb.len, STAGE_STR)
    /\ (PutBackRunning /\ pb'.i > pb.i) =>
          /\ pb'.i = pb.i + 1
          /\ Len(out) = ItemOf(Q_q[pb.i])
          /\ out'[Len(out)] = [val |-> Result(Len(out)).val,
                               len |-> Result(Len(out)).len, whole |-> TRUE]

\* C21: queue contents stay in arrival order.  The entries whose buffers are
\* not yet released hold consecutive items of the arrival sequence, the
\* first of them the item after the last one written; a step that makes
\* Q.nq grow appends the newest item (or the sentinel) and leaves the other
\* entries alone; a step that makes Q.nq shrink is the end of a flush: it
\* drops the entries before Q.q[i], each of which was written out in full
\* when i went past it, and moves the others down in the same order, with
\* the same contents but for the caller's own entry, which gets its string.
C21_ArrivalOrder ==
    /\ [](\A i \in Unflushed..(Q_nq - 1) :
            ItemOf(Q_q[i]) = ItemOf(Q_q[Unflushed]) + (i - Unflushed))
    /\ [](Unflushed < Q_nq =>
            ItemOf(Q_q[Unflushed]) =
                Cardinality({j \in 1..Len(out) : out[j].whole}) + 1)
    /\ [][C21_Step]_vars

\* The first item is gone from the queue, which holds the second and the
\* third, the third already formatted.
C21_Witness ==
    /\ Q_nq = 2
    /\ ~PutBackRunning
    /\ ItemOf(Q_q[0]) = 2
    /\ ItemOf(Q_q[1]) = 3
    /\ Q_q[1].stage = STAGE_STR

\* The live entries of items being cooked, and those of them that hold the
\* blob thread t has in hand.
Cooking ==
    {i \in 0..(Q_nq - 1) : Q_q[i].stage = STAGE_COOKING /\ Q_q[i].ptr # NULL}
CookedBy(t) ==
    {i \in Cooking : Q_q[i].ptr = IF t = "worker" THEN w.blob ELSE a.blob}

\* C22: at most two transformations in flight.  Every entry of an item in
\* STAGE_COOKING holds the blob that main or the worker has in hand, each
\* thread has at most one such entry and they are not the same, so at most
\* two items are in STAGE_COOKING; main has none while it waits on
\* can_produce and none when it appends to the queue.
C22_TwoInFlight ==
    /\ [](/\ Cooking = CookedBy("main") \cup CookedBy("worker")
          /\ CookedBy("main") \cap CookedBy("worker") = {}
          /\ Cardinality(CookedBy("main")) <= 1
          /\ Cardinality(CookedBy("worker")) <= 1
          /\ Cardinality(Cooking) <= 2)
    /\ [](pc["main"] \in {"pb_wait", "fin_wait"} =>
             (CookedBy("main") = {} /\ a.blob = NULL))
    /\ [][Q_nq' > Q_nq => (CookedBy("main") = {} /\ a.blob = NULL)]_vars

\* Two items are being cooked, the worker's ahead of main's.
C22_Witness ==
    /\ Cardinality(Cooking) = 2
    /\ CookedBy("worker") = {0}
    /\ CookedBy("main") = {1}
    /\ pc["worker"] = "cook"
    /\ pc["main"] = "aid"

\* C23: worker exit implies complete output.  The worker returns only from
\* the fetch in which it takes the sentinel; from then on the queue holds
\* the sentinel alone (Q.nq = 1) and stdout holds the complete result of
\* every item read, in order, so nothing Ready or InProgress is left when
\* pthread_join returns.
C23_ExitComplete ==
    /\ [][(pc["worker"] # "exit" /\ pc'["worker"] = "exit") =>
             /\ pc["worker"] = "fetch"
             /\ EarliestPending # -1
             /\ Q_q[EarliestPending].ptr = NULL
             /\ claims'[0] = 1]_vars
    /\ [](pc["worker"] = "exit" =>
             /\ Q_nq = 1
             /\ Q_q[0] = qent(NULL, 0, STAGE_COOKING)
             /\ InStage(STAGE_STR) = {} /\ Cooking = {}
             /\ pc["main"] \in {"join", "done"}
             /\ Len(out) = Len(items)
             /\ \A j \in 1..Len(out) : out[j] = [val |-> Result(j).val,
                                                  len |-> Result(j).len,
                                                  whole |-> TRUE])

\* The worker has returned after a run of MaxItems items, the last of them
\* formatted by main, and main has not yet come back from pthread_join.
C23_Witness ==
    /\ pc["worker"] = "exit"
    /\ pc["main"] = "join"
    /\ Len(items) = MaxItems
    /\ xforms[MaxItems] = <<"main">>

\* The items that have been taken and whose blob is not yet released.
InHand ==
    {k \in 1..MaxItems :
        /\ ident[k] # NULL
        /\ ident[k] \in {w.blob, a.blob}
        /\ mem[ident[k]] = k}

\* C24 as stated, its last part: no identity is given to two different
\* items during a run.  The identity under which putBack looks for an entry
\* is the blob pointer.
C24_NeverReused ==
    \A i \in 1..MaxItems, j \in 1..MaxItems :
        (i # j /\ ident[i] # NULL) => ident[i] # ident[j]

\* A step in which an item is taken: its identity is the pointer its entry
\* already holds, the one processBlob stored.
C24_Step ==
    \A k \in 1..MaxItems :
        /\ ident[k] # NULL => ident'[k] = ident[k]
        /\ (ident[k] = NULL /\ ident'[k] # NULL) =>
              /\ EarliestPending # -1
              /\ ItemOf(Q_q[EarliestPending]) = k
              /\ ident'[k] = Q_q[EarliestPending].ptr

\* C24, amended: the identity of an item is its blob pointer, which the
\* entry holds from the moment it is appended; taking the item assigns
\* nothing.  From the moment an item is taken until its blob is released,
\* exactly one unreleased entry holds that pointer, the item's own, and no
\* other item in hand has it.
C24_UniqueWhileInHand ==
    /\ [][C24_Step]_vars
    /\ [](\A k \in InHand :
            /\ \A i \in Unflushed..(Q_nq - 1) :
                  Q_q[i].ptr = ident[k] <=> ItemOf(Q_q[i]) = k
            /\ \E i \in 0..(Q_nq - 1) :
                  Q_q[i].ptr = ident[k] /\ Q_q[i].stage = STAGE_COOKING
            /\ \A j \in InHand : j # k => ident[j] # ident[k])

\* The second item is in hand under the pointer the first item had, the
\* first having been written and released.
C24_Witness ==
    /\ 2 \in InHand
    /\ ident[2] = ident[1]
    /\ Len(out) >= 1
    /\ \E i \in 0..(Q_nq - 1) : Q_q[i].ptr = ident[2]

====
